---- MODULE Spec2Model ----
(***************************************************************************)
(* TalentScout hiring assistant: the session state kept in                 *)
(* st.session_state (src/app.py), the field extractor                      *)
(* (src/data_handling.py), the stage machine and the session recorder.     *)
(*                                                                         *)
(* Text that the program analyses (user input, profile fields) is a Python *)
(* str, modelled as a tuple of one-character strings, so that lower(),     *)
(* `in`, split() and the regular expressions are computed character by     *)
(* character.  Text that the program only composes and hands on (replies,  *)
(* questions, transcript entries) is a tuple of segments: Lit(t) for a     *)
(* literal piece of an f-string, Val(v) for an interpolated str.           *)
(***************************************************************************)
EXTENDS Integers, Sequences, FiniteSets, TLC

(***************************************************************************)
(* Characters and Python str primitives                                    *)
(***************************************************************************)
Digits == {"0", "1", "2", "3", "4", "5", "6", "7", "8", "9"}

LowerLetters ==
    {"a", "b", "c", "d", "e", "f", "g", "h", "i", "j", "k", "l", "m",
     "n", "o", "p", "q", "r", "s", "t", "u", "v", "w", "x", "y", "z"}

UpperLetters ==
    {"A", "B", "C", "D", "E", "F", "G", "H", "I", "J", "K", "L", "M",
     "N", "O", "P", "Q", "R", "S", "T", "U", "V", "W", "X", "Y", "Z"}

Letters == LowerLetters \cup UpperLetters

\* str.isspace(): the inputs of the model use the blank as their only
\* white-space character.
Whitespace == {" "}

\* The letters beyond ASCII that the inputs of the model use: word characters
\* of the re module (str patterns are Unicode) that no [A-Za-z] class holds.
AccentedLetters == {"é"}

\* \w of the re module over the characters of the model.
WordChars == Letters \cup Digits \cup {"_"} \cup AccentedLetters

LowerChar(c) ==
    CASE c = "A" -> "a" [] c = "B" -> "b" [] c = "C" -> "c" [] c = "D" -> "d"
      [] c = "E" -> "e" [] c = "F" -> "f" [] c = "G" -> "g" [] c = "H" -> "h"
      [] c = "I" -> "i" [] c = "J" -> "j" [] c = "K" -> "k" [] c = "L" -> "l"
      [] c = "M" -> "m" [] c = "N" -> "n" [] c = "O" -> "o" [] c = "P" -> "p"
      [] c = "Q" -> "q" [] c = "R" -> "r" [] c = "S" -> "s" [] c = "T" -> "t"
      [] c = "U" -> "u" [] c = "V" -> "v" [] c = "W" -> "w" [] c = "X" -> "x"
      [] c = "Y" -> "y" [] c = "Z" -> "z" [] OTHER -> c

\* str.lower()
Lower(s) == [i \in 1..Len(s) |-> LowerChar(s[i])]

\* sub in s
Contains(s, sub) ==
    \E i \in 1..(Len(s) - Len(sub) + 1) : SubSeq(s, i, i + Len(sub) - 1) = sub

\* s.find(sub): the 0-based index of the first occurrence, -1 when absent.
Find(s, sub) ==
    IF Contains(s, sub)
    THEN (CHOOSE i \in 1..(Len(s) - Len(sub) + 1) :
            /\ SubSeq(s, i, i + Len(sub) - 1) = sub
            /\ \A j \in 1..(i - 1) : SubSeq(s, j, j + Len(sub) - 1) # sub) - 1
    ELSE -1

\* s[start:end] with 0-based start (inclusive) and end (exclusive).
Slice(s, start, end) == SubSeq(s, start + 1, end)

MaxOf(S) == CHOOSE x \in S : \A y \in S : y <= x

MinOf(S) == CHOOSE x \in S : \A y \in S : x <= y

\* The length of the longest run of characters of class C that starts at the
\* 1-based position i of s (0 when s[i] is not in C or i is past the end).
RunLen(s, i, C) ==
    MaxOf({k \in 0..(Len(s) - i + 1) : \A j \in i..(i + k - 1) : s[j] \in C})

\* str.strip()
Strip(s) ==
    LET keep == {i \in 1..Len(s) : s[i] \notin Whitespace}
    IN  IF keep = {} THEN <<>> ELSE SubSeq(s, MinOf(keep), MaxOf(keep))

\* str.split(): the maximal runs of non-white-space characters, in order.
Split(s) ==
    LET starts == {i \in 1..Len(s) :
                     /\ s[i] \notin Whitespace
                     /\ (i = 1 \/ s[i - 1] \in Whitespace)}
        nth(k) == CHOOSE i \in starts : Cardinality({j \in starts : j <= i}) = k
        stop(i) == MinOf({j \in i..Len(s) :
                            j = Len(s) \/ s[j + 1] \in Whitespace})
    IN  [k \in 1..Cardinality(starts) |-> SubSeq(s, nth(k), stop(nth(k)))]

\* sep.join(words)
RECURSIVE Join(_, _)
Join(sep, words) ==
    IF words = <<>> THEN <<>>
    ELSE IF Len(words) = 1 THEN words[1]
    ELSE words[1] \o sep \o Join(sep, Tail(words))

\* words[:n]
Take(words, n) == SubSeq(words, 1, IF Len(words) < n THEN Len(words) ELSE n)

\* any(c.isdigit() for c in s)
HasDigit(s) == \E i \in 1..Len(s) : s[i] \in Digits

\* ''.join(filter(str.isdigit, s))
RECURSIVE DigitsOf(_)
DigitsOf(s) ==
    IF s = <<>> THEN <<>>
    ELSE IF Head(s) \in Digits THEN <<Head(s)>> \o DigitsOf(Tail(s))
    ELSE DigitsOf(Tail(s))

(***************************************************************************)
(* The regular expressions of src/data_handling.py, matched as the re      *)
(* module matches them: leftmost start, greedy quantifiers, backtracking.  *)
(***************************************************************************)
\* The character at the 1-based position j, "" outside the string.
CharAt(s, j) == IF j \in 1..Len(s) THEN s[j] ELSE ""

\* \b between the characters at the 1-based positions p and p + 1.
WordBoundary(s, p) == (CharAt(s, p) \in WordChars) # (CharAt(s, p + 1) \in WordChars)

\* [A-Za-z0-9._%+-]
EmailLocalChars == Letters \cup Digits \cup {".", "_", "%", "+", "-"}

\* [A-Za-z0-9.-]
EmailDomainChars == Letters \cup Digits \cup {".", "-"}

\* [A-Z|a-z]
EmailTldChars == Letters \cup {"|"}

\* The lengths t >= 2 of a top-level domain that starts at position q and is
\* followed by \b.
EmailTldLens(s, q) ==
    {t \in 2..RunLen(s, q, EmailTldChars) : WordBoundary(s, q + t - 1)}

\* The domain lengths d after which "." and a top-level domain follow; the
\* domain starts at position p.
EmailDomainLens(s, p) ==
    {d \in 1..RunLen(s, p, EmailDomainChars) :
        CharAt(s, p + d) = "." /\ EmailTldLens(s, p + d + 1) # {}}

\* \b[A-Za-z0-9._%+-]+@[A-Za-z0-9.-]+\.[A-Z|a-z]{2,}\b matched at the 1-based
\* position i: the position of the last character of the match, 0 for no match.
\* The local part cannot give characters back ("@" is not one of its
\* characters); the domain and then the top-level domain are as long as they
\* can be.
EmailMatchEnd(s, i) ==
    LET n == RunLen(s, i, EmailLocalChars)
        p == i + n + 1
    IN  IF /\ i \in 1..Len(s)
           /\ WordBoundary(s, i - 1)
           /\ n >= 1
           /\ CharAt(s, i + n) = "@"
           /\ EmailDomainLens(s, p) # {}
        THEN LET d == MaxOf(EmailDomainLens(s, p))
             IN  p + d + MaxOf(EmailTldLens(s, p + d + 1))
        ELSE 0

\* re.match(email_pattern, v): a match at the start of v.
EmailReMatch(v) == EmailMatchEnd(v, 1) # 0

\* re.findall(email_pattern, s): the matches, left to right, not overlapping.
RECURSIVE EmailFindAllFrom(_, _)
EmailFindAllFrom(s, from) ==
    LET starts == {i \in from..Len(s) : EmailMatchEnd(s, i) # 0}
    IN  IF starts = {} THEN <<>>
        ELSE LET i == MinOf(starts)
                 e == EmailMatchEnd(s, i)
             IN  <<SubSeq(s, i, e)>> \o EmailFindAllFrom(s, e + 1)

EmailFindAll(s) == EmailFindAllFrom(s, 1)

\* [-\s\.]
PhoneSeparators == {"-", "."} \cup Whitespace

\* One optional character of class C at position j: the position after it.
SkipOptional(s, j, C) == IF CharAt(s, j) \in C THEN j + 1 ELSE j

\* [\+]?[(]?[0-9]{3}[)]?[-\s\.]?[0-9]{3}[-\s\.]?[0-9]{4,6} matched at the
\* 1-based position i: the position of the last character of the match, 0 for
\* no match.  An optional character that is present is always taken: what
\* follows each of them cannot match that character.
PhoneMatchEnd(s, i) ==
    LET a == SkipOptional(s, i, {"+"})
        b == SkipOptional(s, a, {"("})
        c == SkipOptional(s, b + 3, {")"})
        d == SkipOptional(s, c, PhoneSeparators)
        e == SkipOptional(s, d + 3, PhoneSeparators)
        r == RunLen(s, e, Digits)
    IN  IF /\ i \in 1..Len(s)
           /\ RunLen(s, b, Digits) >= 3
           /\ RunLen(s, d, Digits) >= 3
           /\ r >= 4
        THEN e + (IF r > 6 THEN 6 ELSE r) - 1
        ELSE 0

\* re.findall(phone_pattern, s)
RECURSIVE PhoneFindAllFrom(_, _)
PhoneFindAllFrom(s, from) ==
    LET starts == {i \in from..Len(s) : PhoneMatchEnd(s, i) # 0}
    IN  IF starts = {} THEN <<>>
        ELSE LET i == MinOf(starts)
                 e == PhoneMatchEnd(s, i)
             IN  <<SubSeq(s, i, e)>> \o PhoneFindAllFrom(s, e + 1)

PhoneFindAll(s) == PhoneFindAllFrom(s, 1)

\* The three exp_patterns, by the literal that follows (\d+)[\+]?\s* in each.
ExpPatterns == <<"years?", "yrs", "y\\.?e\\.?">>

\* Whether s holds the literal lit at the 1-based position j.
HasAt(s, j, lit) ==
    j + Len(lit) - 1 <= Len(s) /\ SubSeq(s, j, j + Len(lit) - 1) = lit

\* Whether the tail of exp_patterns[k] matches at position j.
ExpTailMatches(s, j, k) ==
    CASE k = 1 -> HasAt(s, j, <<"y", "e", "a", "r">>)
      [] k = 2 -> HasAt(s, j, <<"y", "r", "s">>)
      [] k = 3 -> /\ CharAt(s, j) = "y"
                  /\ CharAt(s, SkipOptional(s, j + 1, {"."})) = "e"

\* exp_patterns[k] matched at position i: the number of digits of group 1,
\* 0 for no match.  \d+ takes the whole run of digits and \s* the whole run of
\* white space: neither can give a character back to what follows.
ExpMatchDigits(s, i, k) ==
    LET n == RunLen(s, i, Digits)
        j == SkipOptional(s, i + n, {"+"})
        w == j + RunLen(s, j, Whitespace)
    IN  IF i \in 1..Len(s) /\ n >= 1 /\ ExpTailMatches(s, w, k)
        THEN n ELSE 0

\* re.findall(exp_patterns[k], s)[0] when there is a match: group 1 of the
\* leftmost match; <<>> when findall returns the empty list.
ExpFirstMatch(s, k) ==
    LET starts == {i \in 1..Len(s) : ExpMatchDigits(s, i, k) # 0}
    IN  IF starts = {} THEN <<>>
        ELSE SubSeq(s, MinOf(starts), MinOf(starts) + ExpMatchDigits(s, MinOf(starts), k) - 1)

(***************************************************************************)
(* Candidate profile and the field extractor (src/data_handling.py)        *)
(***************************************************************************)
\* Python's None; no str of the model equals it (a str is a tuple of single
\* characters).
None == <<"None">>

\* Python truthiness of an Optional[str]: neither None nor "".
Truthy(v) == v # None /\ v # <<>>

\* st.session_state.candidate_info as first initialised.
EmptyInfo ==
    [name |-> None, email |-> None, phone |-> None, experience |-> None,
     position |-> None, location |-> None, tech_stack |-> None]

\* ExtractionStages with collecting_name among the stages that extract.
ExtractionStagesWithName ==
    {"greeting", "collecting_name", "collecting_info", "tech_stack_confirmation"}

\* The stages in which extract_candidate_info goes on to extract.
ExtractionStages == {"greeting", "collecting_info", "tech_stack_confirmation"}

\* The words that keep the first words of a reply from being taken as a name.
name_stop_words == {<<"h", "i">>, <<"h", "e", "l", "l", "o">>, <<"h", "e", "y">>}

job_titles ==
    << <<"d", "e", "v", "e", "l", "o", "p", "e", "r">>, <<"e", "n", "g", "i", "n", "e", "e", "r">>, <<"a", "n", "a", "l", "y", "s", "t">>, <<"m", "a", "n", "a", "g", "e", "r">>, <<"d", "e", "s", "i", "g", "n", "e", "r">>,
       <<"a", "r", "c", "h", "i", "t", "e", "c", "t">>, <<"c", "o", "n", "s", "u", "l", "t", "a", "n", "t">>, <<"s", "p", "e", "c", "i", "a", "l", "i", "s", "t">>, <<"a", "d", "m", "i", "n", "i", "s", "t", "r", "a", "t", "o", "r">> >>

tech_keywords ==
    << <<"p", "y", "t", "h", "o", "n">>, <<"j", "a", "v", "a">>, <<"j", "a", "v", "a", "s", "c", "r", "i", "p", "t">>, <<"j", "s">>, <<"t", "y", "p", "e", "s", "c", "r", "i", "p", "t">>, <<"t", "s">>, <<"c", "#">>, <<"c", "+", "+">>,
       <<"r", "u", "b", "y">>, <<"p", "h", "p">>, <<"g", "o">>, <<"r", "u", "s", "t">>, <<"s", "w", "i", "f", "t">>, <<"k", "o", "t", "l", "i", "n">>, <<"r", "e", "a", "c", "t">>, <<"a", "n", "g", "u", "l", "a", "r">>,
       <<"v", "u", "e">>, <<"n", "o", "d", "e">>, <<"d", "j", "a", "n", "g", "o">>, <<"f", "l", "a", "s", "k">>, <<"s", "p", "r", "i", "n", "g">>, <<"r", "a", "i", "l", "s">>, <<"l", "a", "r", "a", "v", "e", "l">>,
       <<"a", "w", "s">>, <<"a", "z", "u", "r", "e">>, <<"g", "c", "p">>, <<"s", "q", "l">>, <<"n", "o", "s", "q", "l">>, <<"m", "o", "n", "g", "o", "d", "b">>, <<"m", "y", "s", "q", "l">>,
       <<"p", "o", "s", "t", "g", "r", "e", "s", "q", "l">>, <<"o", "r", "a", "c", "l", "e">>, <<"d", "o", "c", "k", "e", "r">>, <<"k", "u", "b", "e", "r", "n", "e", "t", "e", "s">>, <<"d", "e", "v", "o", "p", "s">>, <<"m", "l">>,
       <<"a", "i">>, <<"d", "a", "t", "a", " ", "s", "c", "i", "e", "n", "c", "e">>, <<"f", "r", "o", "n", "t", "e", "n", "d">>, <<"b", "a", "c", "k", "e", "n", "d">>, <<"f", "u", "l", "l", "s", "t", "a", "c", "k">> >>

\* Lines 68-75: the first up to three words of the reply become the name.
ExtractName(user_input, info, current_stage) ==
    LET words == Split(Strip(user_input))
        potential_name == Join(<<" ">>, Take(words, 3))
    IN  IF /\ current_stage = "greeting"
           /\ ~Truthy(info.name)
           /\ Len(words) >= 1
           /\ Len(potential_name) > 2
           /\ ~\E w \in name_stop_words : Contains(Lower(potential_name), w)
        THEN [info EXCEPT !.name = potential_name]
        ELSE info

\* Lines 78-82: the first match of the email pattern.
ExtractEmail(user_input, info) ==
    IF /\ ~Truthy(info.email)
       /\ Contains(user_input, <<"@">>)
       /\ Contains(user_input, <<".">>)
       /\ EmailFindAll(user_input) # <<>>
    THEN [info EXCEPT !.email = EmailFindAll(user_input)[1]]
    ELSE info

\* ExtractPhone without its guard `not info["phone"]`: a later phone number
\* replaces the stored one.
ExtractPhoneOverwrite(user_input, info) ==
    IF HasDigit(user_input) /\ PhoneFindAll(user_input) # <<>>
    THEN [info EXCEPT !.phone = PhoneFindAll(user_input)[1]]
    ELSE info

\* Lines 85-90: the first match of the phone pattern, stored as typed.
ExtractPhone(user_input, info) ==
    IF /\ ~Truthy(info.phone)
       /\ HasDigit(user_input)
       /\ PhoneFindAll(user_input) # <<>>
    THEN [info EXCEPT !.phone = PhoneFindAll(user_input)[1]]
    ELSE info

\* Lines 93-105: the first of the three patterns that matches the lower-cased
\* reply gives "<N> years".
ExtractExperience(user_input, info) ==
    LET low == Lower(user_input)
        hits == {k \in 1..Len(ExpPatterns) : ExpFirstMatch(low, k) # <<>>}
    IN  IF ~Truthy(info.experience) /\ HasDigit(user_input) /\ hits # {}
        THEN [info EXCEPT !.experience = ExpFirstMatch(low, MinOf(hits)) \o <<" ", "y", "e", "a", "r", "s">>]
        ELSE info

\* Lines 108-121: a window of 20 characters before and 30 from the start of
\* the first job title of the list that occurs in the reply.
ExtractPosition(user_input, info) ==
    LET words == Split(Strip(user_input))
        low == Lower(user_input)
        hits == {k \in 1..Len(job_titles) : Contains(low, job_titles[k])}
        index == Find(low, job_titles[MinOf(hits)])
        start == IF index - 20 > 0 THEN index - 20 ELSE 0
        end == IF Len(user_input) < index + 30 THEN Len(user_input) ELSE index + 30
    IN  IF ~Truthy(info.position) /\ Len(words) >= 2 /\ hits # {}
        THEN [info EXCEPT !.position = Strip(Slice(user_input, start, end))]
        ELSE info

\* ExtractTechStack without the test of the stage: the keywords are looked
\* for in every stage in which the extractor runs.
ExtractTechStackAnyStage(user_input, info, current_stage) ==
    LET low == Lower(user_input)
        Found(tech) == Contains(low, tech)
        found_techs == SelectSeq(tech_keywords, Found)
    IN  IF /\ ~Truthy(info.tech_stack)
           /\ Len(Split(user_input)) >= 3
           /\ found_techs # <<>>
        THEN [info EXCEPT !.tech_stack = Join(<<",", " ">>, found_techs)]
        ELSE info

\* Lines 124-139: the technology keywords found in the reply, in list order.
ExtractTechStack(user_input, info, current_stage) ==
    LET low == Lower(user_input)
        Found(tech) == Contains(low, tech)
        found_techs == SelectSeq(tech_keywords, Found)
    IN  IF /\ ~Truthy(info.tech_stack)
           /\ current_stage = "collecting_info"
           /\ Len(Split(user_input)) >= 3
           /\ found_techs # <<>>
        THEN [info EXCEPT !.tech_stack = Join(<<",", " ">>, found_techs)]
        ELSE info

\* extract_candidate_info without the gate on the stage: lines 64-65 left out.
extract_candidate_info_every_stage(user_input, current_info, current_stage) ==
    LET i1 == ExtractName(user_input, current_info, current_stage)
        i2 == ExtractEmail(user_input, i1)
        i3 == ExtractPhone(user_input, i2)
        i4 == ExtractExperience(user_input, i3)
        i5 == ExtractPosition(user_input, i4)
    IN  ExtractTechStack(user_input, i5, current_stage)

\* extract_candidate_info(user_input, current_info, current_stage): the
\* updated copy of current_info.
extract_candidate_info(user_input, current_info, current_stage) ==
    IF current_stage \notin ExtractionStages
    THEN current_info
    ELSE LET i1 == ExtractName(user_input, current_info, current_stage)
             i2 == ExtractEmail(user_input, i1)
             i3 == ExtractPhone(user_input, i2)
             i4 == ExtractExperience(user_input, i3)
             i5 == ExtractPosition(user_input, i4)
         IN  ExtractTechStack(user_input, i5, current_stage)

(***************************************************************************)
(* Composed text                                                           *)
(***************************************************************************)
\* A literal piece of an f-string or a string constant of the source.
Lit(t) == [lit |-> t, val |-> <<>>]

\* An interpolated str value.
Val(v) == [lit |-> "", val |-> v]

\* str(v) of an Optional[str], as an f-string renders it.
Str(v) == IF v = None THEN <<"N", "o", "n", "e">> ELSE v

\* a or b on an Optional[str] a
OrElse(a, b) == IF Truthy(a) THEN a ELSE b

(***************************************************************************)
(* The model collaborator and its fallbacks (src/llm_integration.py)       *)
(***************************************************************************)
\* What response.choices[0].message.content.strip() can be: the texts the
\* hosted model may answer with.
LiveReplies == { <<Lit("<reply of the hosted model>")>> }

\* any(term in user_message for term in terms)
ContainsAny(s, terms) == \E term \in terms : Contains(s, term)

\* get_mock_response(messages): messages[-1] is the user's turn and the stage
\* is read back from the "Current conversation stage: ..." system message.
get_mock_response(user_input, stage) ==
    LET user_message == Lower(user_input)
    IN  IF Contains(user_message, <<"n", "a", "m", "e">>) /\ stage = "greeting"
        THEN <<Lit("Nice to meet you! Could you please share your email address so our team can contact you?")>>
        ELSE IF Contains(user_message, <<"e", "m", "a", "i", "l">>) /\ Contains(user_message, <<"@">>)
        THEN <<Lit("Thanks for your email. What's your phone number in case we need to reach you quickly?")>>
        ELSE IF ContainsAny(user_message, {<<"p", "h", "o", "n", "e">>, <<"n", "u", "m", "b", "e", "r">>, <<"c", "o", "n", "t", "a", "c", "t">>})
        THEN <<Lit("Great! How many years of experience do you have in your field?")>>
        ELSE IF ContainsAny(user_message, {<<"e", "x", "p", "e", "r", "i", "e", "n", "c", "e">>, <<"y", "e", "a", "r">>, <<"w", "o", "r", "k", "e", "d">>})
        THEN <<Lit("Thank you. What position are you currently looking for?")>>
        ELSE IF ContainsAny(user_message, {<<"p", "o", "s", "i", "t", "i", "o", "n">>, <<"j", "o", "b">>, <<"r", "o", "l", "e">>, <<"l", "o", "o", "k", "i", "n", "g", " ", "f", "o", "r">>})
        THEN <<Lit("Where are you currently located? We want to match you with opportunities in your area.")>>
        ELSE IF ContainsAny(user_message, {<<"l", "o", "c", "a", "t", "i", "o", "n">>, <<"c", "i", "t", "y">>, <<"a", "r", "e", "a">>, <<"b", "a", "s", "e", "d">>})
        THEN <<Lit("Please tell me about your tech stack. What programming languages, frameworks, and tools are you proficient in?")>>
        ELSE IF stage = "technical_questions"
        THEN <<Lit("Thank you for your answer. That shows good understanding of the technology.")>>
        ELSE IF Contains(user_message, <<"b", "y", "e">>) \/ Contains(user_message, <<"e", "x", "i", "t">>)
        THEN <<Lit("Thank you for your time! Our recruitment team will review your information and get back to you soon if there's a match. Have a great day!")>>
        ELSE <<Lit("Thank you for that information. Is there anything else you'd like to share about your skills or experience?")>>

\* get_chatbot_response(messages): the replies the call can return.  Without
\* an API key it is the mock response; with one it is the hosted model's
\* reply, or the mock response when the call raises.
get_chatbot_response(api_key, user_input, stage) ==
    IF ~api_key
    THEN {get_mock_response(user_input, stage)}
    ELSE LiveReplies \cup {get_mock_response(user_input, stage)}

\* The keys of the tech_questions dictionary, in insertion order.
MockTechs == << <<"p", "y", "t", "h", "o", "n">>, <<"j", "a", "v", "a", "s", "c", "r", "i", "p", "t">>, <<"r", "e", "a", "c", "t">>, <<"j", "a", "v", "a">>, <<"s", "q", "l">>, <<"a", "w", "s">>, <<"d", "e", "v", "o", "p", "s">> >>

\* tech_questions[tech] of get_mock_technical_questions, by position in MockTechs.
MockQuestions ==
    << << <<Lit("Can you explain the difference between a list and a tuple in Python?")>>,
          <<Lit("How do you handle exceptions in Python?")>>,
          <<Lit("What is the difference between __init__ and __new__ in Python classes?")>>,
          <<Lit("How does memory management work in Python?")>>,
          <<Lit("Can you explain decorators and provide a use case?")>> >>,
       << <<Lit("What's the difference between let, const, and var in JavaScript?")>>,
          <<Lit("Can you explain closures in JavaScript?")>>,
          <<Lit("How does prototypal inheritance work?")>>,
          <<Lit("What are Promises and how do they differ from callbacks?")>>,
          <<Lit("How would you optimize the performance of a JavaScript application?")>> >>,
       << <<Lit("What is the virtual DOM in React and how does it work?")>>,
          <<Lit("Explain the component lifecycle in React.")>>,
          <<Lit("What's the difference between state and props?")>>,
          <<Lit("How do you handle side effects in React components?")>>,
          <<Lit("What are hooks and how have they changed React development?")>> >>,
       << <<Lit("What is the difference between an interface and an abstract class in Java?")>>,
          <<Lit("How does garbage collection work in Java?")>>,
          <<Lit("Explain the principles of SOLID in Java.")>>,
          <<Lit("What are the new features introduced in Java 8?")>>,
          <<Lit("How would you handle concurrency in a Java application?")>> >>,
       << <<Lit("What's the difference between INNER JOIN and LEFT JOIN?")>>,
          <<Lit("How would you optimize a slow SQL query?")>>,
          <<Lit("Explain normalization and when you might denormalize a database.")>>,
          <<Lit("What are indexes and how do they work?")>>,
          <<Lit("How would you handle large dataset operations in SQL?")>> >>,
       << <<Lit("What AWS services would you use for a highly available web application?")>>,
          <<Lit("Explain the difference between EC2, ECS, and Lambda.")>>,
          <<Lit("How would you design a scalable architecture on AWS?")>>,
          <<Lit("What security best practices would you implement in AWS?")>>,
          <<Lit("How would you monitor and troubleshoot issues in an AWS environment?")>> >>,
       << <<Lit("Explain the CI/CD pipeline and its benefits.")>>,
          <<Lit("What containerization technologies have you worked with?")>>,
          <<Lit("How would you handle scaling in a microservices architecture?")>>,
          <<Lit("What monitoring and alerting tools have you used?")>>,
          <<Lit("How do you approach infrastructure as code?")>> >> >>

\* questions.extend(tech_qs) for every tech of the table, from the k-th on,
\* that occurs in the lower-cased tech stack.
RECURSIVE MockQuestionsFrom(_, _)
MockQuestionsFrom(tech_stack, k) ==
    IF k > Len(MockTechs) THEN <<>>
    ELSE (IF Contains(tech_stack, MockTechs[k]) THEN MockQuestions[k] ELSE <<>>)
         \o MockQuestionsFrom(tech_stack, k + 1)

\* get_mock_technical_questions without tech_stack.lower(): the keywords are
\* looked for in the string as typed, which the generic questions then embed.
get_mock_technical_questions_as_typed(tech_stack) ==
    LET questions == MockQuestionsFrom(tech_stack, 1)
    IN  IF questions = <<>>
        THEN << <<Lit("Could you explain your experience with "), Val(tech_stack), Lit("?")>>,
                <<Lit("What projects have you worked on using "), Val(tech_stack), Lit("?")>>,
                <<Lit("What challenges have you faced when working with "), Val(tech_stack), Lit("?")>>,
                <<Lit("How do you stay updated with the latest developments in "), Val(tech_stack), Lit("?")>>,
                <<Lit("Can you describe a complex problem you solved using "), Val(tech_stack), Lit("?")>> >>
        ELSE Take(questions, 5)

\* get_mock_technical_questions(tech_stack)
get_mock_technical_questions(tech_stack) ==
    LET low == Lower(tech_stack)
        questions == MockQuestionsFrom(low, 1)
    IN  IF questions = <<>>
        THEN << <<Lit("Could you explain your experience with "), Val(low), Lit("?")>>,
                <<Lit("What projects have you worked on using "), Val(low), Lit("?")>>,
                <<Lit("What challenges have you faced when working with "), Val(low), Lit("?")>>,
                <<Lit("How do you stay updated with the latest developments in "), Val(low), Lit("?")>>,
                <<Lit("Can you describe a complex problem you solved using "), Val(low), Lit("?")>> >>
        ELSE Take(questions, 5)

\* What the hosted model's answer can leave after the lines not ending in "?"
\* are dropped: no question, fewer than asked for, or more.
LiveQuestionLists ==
    { <<>>,
      << <<Lit("<first question of the hosted model>?")>>,
         <<Lit("<second question of the hosted model>?")>> >> }

\* generate_technical_questions returning the filtered lines of the hosted
\* model as they are, without the single question that stands in for none.
generate_technical_questions_unfilled(api_key, tech_stack) ==
    IF tech_stack = <<>>
    THEN { << <<Lit("Could you tell me about your technical skills and experience?")>> >> }
    ELSE IF ~api_key
    THEN {get_mock_technical_questions(tech_stack)}
    ELSE {get_mock_technical_questions(tech_stack)} \cup LiveQuestionLists

\* generate_technical_questions(tech_stack): the lists the call can return.
generate_technical_questions(api_key, tech_stack) ==
    IF tech_stack = <<>>
    THEN { << <<Lit("Could you tell me about your technical skills and experience?")>> >> }
    ELSE IF ~api_key
    THEN {get_mock_technical_questions(tech_stack)}
    ELSE {get_mock_technical_questions(tech_stack)}
         \cup {IF questions # <<>> THEN questions
               ELSE << <<Lit("Could you explain your experience with "), Val(tech_stack), Lit("?")>> >> :
               questions \in LiveQuestionLists}

(***************************************************************************)
(* The session recorder (src/data_handling.py)                             *)
(***************************************************************************)
\* CandidateInfo.validate_email: a set email must match the pattern at its start.
validate_email(v) == Truthy(v) => EmailReMatch(v)

\* validate_phone counting the characters of the phone instead of its digits.
validate_phone_by_length(v) == Truthy(v) => Len(v) >= 10

\* CandidateInfo.validate_phone: a set phone must hold at least 10 digits.
validate_phone(v) == Truthy(v) => Len(DigitsOf(v)) >= 10

\* str.replace(" ", "_")
SpacesToUnderscores(s) == [i \in 1..Len(s) |-> IF s[i] = " " THEN "_" ELSE s[i]]

\* save_conversation with the default of candidate_info.get("name", "unknown")
\* standing in for a name that is None.
save_conversation_default_name(candidate_info, messages, technical_questions, data) ==
    LET failed == [ok |-> FALSE, data |-> data]
        name_part == IF candidate_info.name = None
                     THEN <<"u", "n", "k", "n", "o", "w", "n">>
                     ELSE SpacesToUnderscores(Lower(candidate_info.name))
        written ==
            [ok |-> TRUE,
             data |-> Append(data,
                 [filename |-> <<Lit("data/conversation_"), Val(name_part), Lit(".json")>>,
                  candidate_info |-> candidate_info,
                  conversation |-> messages,
                  technical_questions |-> technical_questions])]
    IN  IF /\ validate_email(candidate_info.email)
           /\ validate_phone(candidate_info.phone)
        THEN {failed, written}
        ELSE {failed}

\* save_conversation(candidate_info, messages, technical_questions): the
\* outcomes of the call, as [ok, data]: the value returned and the files of
\* data/ afterwards.  Every exception is caught and gives False: a validation
\* error of the record, None.lower() for an unset name, or an I/O error of
\* makedirs, open or write, which can strike any call.  The time stamps of the
\* record and of the file name are left out.
save_conversation(candidate_info, messages, technical_questions, data) ==
    LET failed == [ok |-> FALSE, data |-> data]
        written ==
            [ok |-> TRUE,
             data |-> Append(data,
                 [filename |-> <<Lit("data/conversation_"),
                                 Val(SpacesToUnderscores(Lower(candidate_info.name))),
                                 Lit(".json")>>,
                  candidate_info |-> candidate_info,
                  conversation |-> messages,
                  technical_questions |-> technical_questions])]
    IN  IF /\ validate_email(candidate_info.email)
           /\ validate_phone(candidate_info.phone)
           /\ candidate_info.name # None
        THEN {failed, written}
        ELSE {failed}

(***************************************************************************)
(* The stage machine (src/app.py).  An operator takes the mutable state w  *)
(* (the keys of st.session_state, openai.api_key, the files of data/ and   *)
(* the log of the collaborators called in the turn) and gives the set of   *)
(* outcomes [w, ret, raised] the call can have: the state afterwards, the  *)
(* value returned, and whether an exception left the call instead.         *)
(***************************************************************************)
Stages ==
    << "greeting", "collecting_name", "collecting_email", "collecting_phone",
       "collecting_position", "collecting_experience", "collecting_tech_stack",
       "tech_stack_confirmation", "technical_questions", "farewell" >>

exit_keywords == {<<"e", "x", "i", "t">>, <<"q", "u", "i", "t">>, <<"b", "y", "e">>, <<"g", "o", "o", "d", "b", "y", "e">>, <<"e", "n", "d">>, <<"s", "t", "o", "p">>}

Returns(w, ret) == [w |-> w, ret |-> ret, raised |-> FALSE]

Raises(w, exception) == [w |-> w, ret |-> <<Lit(exception)>>, raised |-> TRUE]

Called(w, collaborator) == [w EXCEPT !.calls = Append(@, collaborator)]

\* GoTo with the stage of the email branch pasted into the phone branch.
GoToCopyPaste(w, stage) ==
    [w EXCEPT !.current_stage =
        IF stage = "collecting_position" THEN "collecting_email" ELSE stage]

\* GoTo with the position branch leaving out its stage: the phone branch
\* goes on to collecting_experience.
GoToSkipsPosition(w, stage) ==
    [w EXCEPT !.current_stage =
        IF stage = "collecting_position" THEN "collecting_experience" ELSE stage]

\* st.session_state.current_stage = stage
GoTo(w, stage) == [w EXCEPT !.current_stage = stage]

\* HitsExitKeyword matching whole words instead of substrings.
HitsExitKeywordWholeWord(user_input) ==
    \E k \in 1..Len(Split(Lower(user_input))) :
        Split(Lower(user_input))[k] \in exit_keywords

\* any(keyword in user_input.lower() for keyword in exit_keywords)
HitsExitKeyword(user_input) == ContainsAny(Lower(user_input), exit_keywords)

ClosingMessage(info) ==
    <<Lit("Thank you for taking the time to chat with me, "),
      Val(OrElse(info.name, <<"c", "a", "n", "d", "i", "d", "a", "t", "e">>)),
      Lit("! \n\nI've collected your information and technical responses, which will be reviewed by our recruitment team. If your profile matches any of our current openings, a recruiter will contact you at "),
      Val(OrElse(info.email, <<"y", "o", "u", "r", " ", "e", "m", "a", "i", "l", " ", "a", "d", "d", "r", "e", "s", "s">>)),
      Lit(" or "),
      Val(OrElse(info.phone, <<"y", "o", "u", "r", " ", "p", "h", "o", "n", "e", " ", "n", "u", "m", "b", "e", "r">>)),
      Lit(" for the next steps in the process.\n\nBest of luck with your job search, and we hope to speak with you again soon!\n\n- TalentScout Hiring Assistant")>>

EndedNotice ==
    <<Lit("The conversation has ended. Please refresh the page to start a new session.")>>

\* end_conversation without the call of save_conversation.
end_conversation_unsaved(w) ==
    {Returns([w EXCEPT !.conversation_ended = TRUE], ClosingMessage(w.candidate_info))}

\* end_conversation with a failed save left uncaught: the exception leaves the
\* call before the closing message is returned.
end_conversation_save_raises(w) ==
    LET w1 == Called([w EXCEPT !.conversation_ended = TRUE], "save_conversation")
    IN  {IF saved.ok
         THEN Returns([w1 EXCEPT !.data = saved.data], ClosingMessage(w1.candidate_info))
         ELSE Raises(w1, "ValidationError") :
            saved \in save_conversation(w1.candidate_info, w1.messages,
                                        w1.tech_questions, w1.data)}

\* end_conversation without the assignment of conversation_ended.
end_conversation_keeps_open(w) ==
    LET w1 == Called(w, "save_conversation")
    IN  {Returns([w1 EXCEPT !.data = saved.data], ClosingMessage(w1.candidate_info)) :
            saved \in save_conversation(w1.candidate_info, w1.messages,
                                        w1.tech_questions, w1.data)}

\* end_conversation()
end_conversation(w) ==
    LET w1 == Called([w EXCEPT !.conversation_ended = TRUE], "save_conversation")
    IN  {Returns([w1 EXCEPT !.data = saved.data], ClosingMessage(w1.candidate_info)) :
            saved \in save_conversation(w1.candidate_info, w1.messages,
                                        w1.tech_questions, w1.data)}

\* TechExamples with the rule for 'data' tried before the rule for 'back'.
TechExamplesDataFirst(position) ==
    IF Contains(position, <<"w", "e", "b">>) \/ Contains(position, <<"f", "r", "o", "n", "t">>)
    THEN "For example: HTML, CSS, JavaScript, React, Angular, Vue, etc."
    ELSE IF Contains(position, <<"d", "a", "t", "a">>)
    THEN "For example: Python, R, SQL, Pandas, Matplotlib, machine learning libraries, etc."
    ELSE IF Contains(position, <<"b", "a", "c", "k">>)
    THEN "For example: Node.js, Python, Java, PHP, Ruby, databases, etc."
    ELSE IF Contains(position, <<"d", "e", "v", "o", "p", "s">>)
    THEN "For example: Docker, Kubernetes, AWS, CI/CD, Linux, etc."
    ELSE IF Contains(position, <<"m", "o", "b", "i", "l", "e">>)
    THEN "For example: Swift, Kotlin, React Native, Flutter, etc."
    ELSE "For example: programming languages, frameworks, tools, and technologies you're proficient in."

\* The example list of the tech stack prompt, by the lower-cased position.
TechExamples(position) ==
    IF Contains(position, <<"w", "e", "b">>) \/ Contains(position, <<"f", "r", "o", "n", "t">>)
    THEN "For example: HTML, CSS, JavaScript, React, Angular, Vue, etc."
    ELSE IF Contains(position, <<"b", "a", "c", "k">>)
    THEN "For example: Node.js, Python, Java, PHP, Ruby, databases, etc."
    ELSE IF Contains(position, <<"d", "a", "t", "a">>)
    THEN "For example: Python, R, SQL, Pandas, Matplotlib, machine learning libraries, etc."
    ELSE IF Contains(position, <<"d", "e", "v", "o", "p", "s">>)
    THEN "For example: Docker, Kubernetes, AWS, CI/CD, Linux, etc."
    ELSE IF Contains(position, <<"m", "o", "b", "i", "l", "e">>)
    THEN "For example: Swift, Kotlin, React Native, Flutter, etc."
    ELSE "For example: programming languages, frameworks, tools, and technologies you're proficient in."

\* The string handed to generate_technical_questions.
QuestionContext(info) ==
    (IF Truthy(info.position) THEN <<"P", "o", "s", "i", "t", "i", "o", "n", ":", " ">> \o info.position ELSE <<>>)
    \o <<" ", "T", "e", "c", "h", " ", "s", "t", "a", "c", "k", ":", " ">> \o Str(info.tech_stack)

\* AnswerQuestion ending the questions one answer early.
AnswerQuestionEarlyEnd(w) ==
    LET w1 == [w EXCEPT !.question_index = @ + 1]
    IN  IF w1.question_index + 1 < Len(w1.tech_questions)
        THEN {Returns(w1,
                <<Lit("Thank you for your answer. Next question:\n\n")>>
                \o w1.tech_questions[w1.question_index + 1])}
        ELSE end_conversation(GoTo(w1, "farewell"))

\* AnswerQuestion clearing the question set once the last answer is in.
AnswerQuestionForgets(w) ==
    LET w1 == [w EXCEPT !.question_index = @ + 1]
    IN  IF w1.question_index < Len(w1.tech_questions)
        THEN {Returns(w1,
                <<Lit("Thank you for your answer. Next question:\n\n")>>
                \o w1.tech_questions[w1.question_index + 1])}
        ELSE end_conversation(GoTo([w1 EXCEPT !.tech_questions = <<>>], "farewell"))

\* AnswerQuestion comparing the cursor with <= instead of <: past the last
\* question the look-up of the next one fails.
AnswerQuestionOffByOne(w) ==
    LET w1 == [w EXCEPT !.question_index = @ + 1]
    IN  IF w1.question_index < Len(w1.tech_questions)
        THEN {Returns(w1,
                <<Lit("Thank you for your answer. Next question:\n\n")>>
                \o w1.tech_questions[w1.question_index + 1])}
        ELSE IF w1.question_index = Len(w1.tech_questions)
        THEN {Raises(w1, "IndexError")}
        ELSE end_conversation(GoTo(w1, "farewell"))

\* Lines 203-210: the cursor moves to the next question; past the last one
\* the conversation ends.
AnswerQuestion(w) ==
    LET w1 == [w EXCEPT !.question_index = @ + 1]
    IN  IF w1.question_index < Len(w1.tech_questions)
        THEN {Returns(w1,
                <<Lit("Thank you for your answer. Next question:\n\n")>>
                \o w1.tech_questions[w1.question_index + 1])}
        ELSE end_conversation(GoTo(w1, "farewell"))

\* PassThrough answering with a reply of its own instead of the model's.
PassThroughCanned(w, assistant_response) ==
    {Returns(w, <<Lit("Thank you. Let's continue with the interview.")>>)}

\* Line 212: no branch matched, the model's response goes back as it came.
PassThrough(w, assistant_response) == {Returns(w, assistant_response)}

\* handle_stage_transitions(assistant_response, user_input)
handle_stage_transitions(w, assistant_response, user_input) ==
    LET current_stage == w.current_stage
        info == w.candidate_info
    IN  IF current_stage = "greeting" /\ Strip(Lower(user_input)) = <<"h", "e", "y">>
        THEN {Returns(GoTo(w, "collecting_name"),
                <<Lit("Hello! I'm TalentScout, an AI hiring assistant. I'll be conducting your initial screening interview. Could you please tell me your full name?")>>)}
        ELSE IF current_stage = "greeting" /\ Truthy(info.name)
        THEN {Returns(GoTo(w, "collecting_email"),
                <<Lit("Thank you, "), Val(info.name), Lit("! What's your email address?")>>)}
        ELSE IF current_stage = "collecting_email" /\ Truthy(info.email)
        THEN {Returns(GoTo(w, "collecting_phone"),
                <<Lit("Great! Now, could you please provide your phone number?")>>)}
        ELSE IF current_stage = "collecting_phone" /\ Truthy(info.phone)
        THEN {Returns(GoTo(w, "collecting_position"),
                <<Lit("Thanks! What area or position would you like to work in? (e.g., Web Development, Data Science, DevOps, etc.)")>>)}
        ELSE IF current_stage = "collecting_position" /\ Truthy(info.position)
        THEN {Returns(GoTo(w, "collecting_experience"),
                <<Lit("Got it! How many years of experience do you have in "), Val(info.position), Lit("?")>>)}
        ELSE IF current_stage = "collecting_experience" /\ Truthy(info.experience)
        THEN LET w1 == GoTo(w, "collecting_tech_stack")
             IN  IF info.position = None
                 THEN {Raises(w1, "AttributeError")}
                 ELSE {Returns(w1,
                        <<Lit("Thank you! "),
                          Lit("Please list your technical skills relevant to this position. "),
                          Lit(TechExamples(Lower(info.position)))>>)}
        ELSE IF current_stage = "collecting_tech_stack" /\ Truthy(info.tech_stack)
        THEN {Returns(GoTo(w, "tech_stack_confirmation"),
                <<Lit("Thank you for sharing your skills in "), Val(info.tech_stack),
                  Lit(". Is there anything else you'd like to add before we move on to some technical questions?")>>)}
        ELSE IF current_stage = "tech_stack_confirmation" /\ w.tech_questions = <<>>
        THEN {LET w1 == GoTo([Called(w, "generate_technical_questions") EXCEPT
                                     !.tech_questions = questions],
                                "technical_questions")
              IN  IF questions = <<>>
                  THEN Raises(w1, "IndexError")
                  ELSE Returns(w1,
                         <<Lit("Great! Now I'll ask you some technical questions based on your experience.\n\n")>>
                         \o questions[1]) :
              questions \in generate_technical_questions(w.api_key, QuestionContext(info))}
        ELSE IF current_stage = "technical_questions"
        THEN AnswerQuestion(w)
        ELSE PassThrough(w, assistant_response)

\* process_user_input without the check of conversation_ended.
process_user_input_unchecked(w, user_input) ==
    IF HitsExitKeyword(user_input) /\ w.current_stage # "farewell"
    THEN end_conversation(GoTo(w, "farewell"))
    ELSE LET w1 == [Called(w, "extract_candidate_info") EXCEPT
                       !.candidate_info =
                           extract_candidate_info(user_input, w.candidate_info, w.current_stage)]
             w2 == Called(w1, "get_chatbot_response")
         IN  UNION {handle_stage_transitions(w2, assistant_response, user_input) :
                       assistant_response \in
                           get_chatbot_response(w.api_key, user_input, w.current_stage)}

\* process_user_input extracting the fields before it looks for an exit keyword.
process_user_input_extract_first(w, user_input) ==
    LET w1 == [Called(w, "extract_candidate_info") EXCEPT
                  !.candidate_info =
                      extract_candidate_info(user_input, w.candidate_info, w.current_stage)]
        w2 == Called(w1, "get_chatbot_response")
    IN  IF w.conversation_ended
        THEN {Returns(w, EndedNotice)}
        ELSE IF HitsExitKeyword(user_input) /\ w.current_stage # "farewell"
        THEN end_conversation(GoTo(w1, "farewell"))
        ELSE UNION {handle_stage_transitions(w2, assistant_response, user_input) :
                       assistant_response \in
                           get_chatbot_response(w.api_key, user_input, w.current_stage)}

\* process_user_input returning the rule-based response as soon as the model
\* call has failed, before the stage transitions are looked at.
process_user_input_fallback_returns(w, user_input) ==
    IF w.conversation_ended
    THEN {Returns(w, EndedNotice)}
    ELSE IF HitsExitKeyword(user_input) /\ w.current_stage # "farewell"
    THEN end_conversation(GoTo(w, "farewell"))
    ELSE LET w1 == [Called(w, "extract_candidate_info") EXCEPT
                       !.candidate_info =
                           extract_candidate_info(user_input, w.candidate_info, w.current_stage)]
             w2 == Called(w1, "get_chatbot_response")
         IN  {Returns(w2, get_mock_response(user_input, w.current_stage))}
             \cup (IF w.api_key
                   THEN UNION {handle_stage_transitions(w2, assistant_response, user_input) :
                                  assistant_response \in LiveReplies}
                   ELSE {})

\* process_user_input(user_input)
process_user_input(w, user_input) ==
    IF w.conversation_ended
    THEN {Returns(w, EndedNotice)}
    ELSE IF HitsExitKeyword(user_input) /\ w.current_stage # "farewell"
    THEN end_conversation(GoTo(w, "farewell"))
    ELSE LET w1 == [Called(w, "extract_candidate_info") EXCEPT
                       !.candidate_info =
                           extract_candidate_info(user_input, w.candidate_info, w.current_stage)]
             w2 == Called(w1, "get_chatbot_response")
         IN  UNION {handle_stage_transitions(w2, assistant_response, user_input) :
                       assistant_response \in
                           get_chatbot_response(w.api_key, user_input, w.current_stage)}

(***************************************************************************)
(* State                                                                   *)
(***************************************************************************)
VARIABLES
    messages,            \* st.session_state.messages: the transcript
    candidate_info,      \* st.session_state.candidate_info: the profile
    current_stage,       \* st.session_state.current_stage
    tech_questions,      \* st.session_state.tech_questions
    question_index,      \* st.session_state.question_index
    conversation_ended,  \* st.session_state.conversation_ended
    api_key,             \* whether openai.api_key is set (fixed at import)
    data,                \* the records written to data/
    user_input,          \* the input of the last turn
    response,            \* what process_user_input returned in the last turn
    raised,              \* whether the last turn ended in an exception
    calls,               \* the collaborators called in the last turn, in order
    prev,                \* the session state as the last turn found it
    save_calls,          \* the number of calls of save_conversation so far
    generate_calls       \* the number of calls of generate_technical_questions so far

vars ==
    <<messages, candidate_info, current_stage, tech_questions, question_index,
      conversation_ended, api_key, data, user_input, response, raised, calls,
      prev, save_calls, generate_calls>>

\* The number of turns a session of the model takes from a fresh start.
MaxTurns == 4

\* The number of turns a session of the model takes from a preset state.
MaxPresetTurns == 2

\* The replies a user of the model types.
InputHey == <<"h", "e", "y">>

InputPartial == <<"h", "i", " ", "5", "5", "5", "-", "9", "8", "7", "-", "6", "5", "4", "3", " ", "5", " ", "y", "r", "s">>

InputProfile == <<"A", "n", "n", " ", "L", "e", "e", " ", "a", "n", "n", "@", "x", ".", "i", "o", " ", "5", "5", "5", "-", "1", "2", "3", "-", "4", "5", "6", "7", " ", "w", "e", "b", " ", "d", "e", "v", "e", "l", "o", "p", "e", "r", " ", "4", " ", "y", "e", "a", "r", "s">>

InputName == <<"A", "n", "n", " ", "L", "e", "e">>

InputGoodbye == <<"G", "o", "o", "d", "b", "y", "e">>

InputBackend == <<"B", "a", "c", "k", "e", "n", "d", " ", "D", "e", "v", "e", "l", "o", "p", "e", "r", " ", "b", "o", "@", "z", ".", "i", "o">>

InputExperience == <<"I", " ", "h", "a", "v", "e", " ", "4", " ", "y", "e", "a", "r", "s", " ", "o", "f", " ", "e", "x", "p", "e", "r", "i", "e", "n", "c", "e">>

InputStack == <<"p", "y", "t", "h", "o", "n", " ", "r", "e", "a", "c", "t", " ", "a", "n", "d", " ", "s", "q", "l">>

InputAccent == <<"Z", "o", "é", ".", "b", "@", "x", ".", "i", "o">>

Inputs ==
    {InputHey, InputPartial, InputProfile, InputName, InputGoodbye,
     InputBackend, InputExperience, InputStack, InputAccent}

InitialGreeting ==
    <<Lit("TalentScout: "),
      Lit("Hello! I'm TalentScout, an AI hiring assistant for tech positions. \n\nI'll be conducting your initial screening interview to learn more about your background and technical skills. \n\nTo get started, could you please tell me your full name?")>>

\* The session state a turn starts from.
Session ==
    [current_stage |-> current_stage, candidate_info |-> candidate_info,
     tech_questions |-> tech_questions, question_index |-> question_index,
     conversation_ended |-> conversation_ended]

\* The number of user turns of the transcript.
Turns == Cardinality({i \in 1..Len(messages) : messages[i][1] = Lit("You: ")})

CountOf(seq, x) == Cardinality({i \in 1..Len(seq) : seq[i] = x})

\* The state after the first run of the script: every key of
\* st.session_state initialised and the greeting appended to the transcript.
Init ==
    /\ messages = <<InitialGreeting>>
    /\ candidate_info = EmptyInfo
    /\ current_stage = "greeting"
    /\ tech_questions = <<>>
    /\ question_index = 0
    /\ conversation_ended = FALSE
    /\ api_key \in BOOLEAN
    /\ data = <<>>
    /\ user_input = <<>>
    /\ response = <<>>
    /\ raised = FALSE
    /\ calls = <<>>
    /\ prev = Session
    /\ save_calls = 0
    /\ generate_calls = 0

\* Send leaving the reply out of the transcript once the conversation has
\* ended.
SendSilentWhenEnded(u) ==
    LET w0 == [messages |-> Append(messages, <<Lit("You: "), Val(u)>>),
               candidate_info |-> candidate_info,
               current_stage |-> current_stage,
               tech_questions |-> tech_questions,
               question_index |-> question_index,
               conversation_ended |-> conversation_ended,
               api_key |-> api_key,
               data |-> data,
               calls |-> <<>>]
    IN  \E o \in process_user_input(w0, u) :
            /\ messages' = IF o.raised \/ conversation_ended THEN o.w.messages
                           ELSE Append(o.w.messages, <<Lit("TalentScout: ")>> \o o.ret)
            /\ candidate_info' = o.w.candidate_info
            /\ current_stage' = o.w.current_stage
            /\ tech_questions' = o.w.tech_questions
            /\ question_index' = o.w.question_index
            /\ conversation_ended' = o.w.conversation_ended
            /\ api_key' = o.w.api_key
            /\ data' = o.w.data
            /\ user_input' = u
            /\ response' = o.ret
            /\ raised' = o.raised
            /\ calls' = o.w.calls
            /\ prev' = Session
            /\ save_calls' = save_calls + CountOf(o.w.calls, "save_conversation")
            /\ generate_calls' =
                  generate_calls + CountOf(o.w.calls, "generate_technical_questions")

\* The send handler: the user's message is appended, process_user_input runs,
\* and its reply is appended unless an exception ended the run of the script.
Send(u) ==
    LET w0 == [messages |-> Append(messages, <<Lit("You: "), Val(u)>>),
               candidate_info |-> candidate_info,
               current_stage |-> current_stage,
               tech_questions |-> tech_questions,
               question_index |-> question_index,
               conversation_ended |-> conversation_ended,
               api_key |-> api_key,
               data |-> data,
               calls |-> <<>>]
    IN  \E o \in process_user_input(w0, u) :
            /\ messages' = IF o.raised THEN o.w.messages
                           ELSE Append(o.w.messages, <<Lit("TalentScout: ")>> \o o.ret)
            /\ candidate_info' = o.w.candidate_info
            /\ current_stage' = o.w.current_stage
            /\ tech_questions' = o.w.tech_questions
            /\ question_index' = o.w.question_index
            /\ conversation_ended' = o.w.conversation_ended
            /\ api_key' = o.w.api_key
            /\ data' = o.w.data
            /\ user_input' = u
            /\ response' = o.ret
            /\ raised' = o.raised
            /\ calls' = o.w.calls
            /\ prev' = Session
            /\ save_calls' = save_calls + CountOf(o.w.calls, "save_conversation")
            /\ generate_calls' =
                  generate_calls + CountOf(o.w.calls, "generate_technical_questions")

Next == \E u \in Inputs : Turns < MaxTurns /\ Send(u)

Spec == Init /\ [][Next]_vars

(***************************************************************************)
(* A session that starts from keys already present in st.session_state:    *)
(* lines 23-47 of src/app.py initialise only the keys that are missing, so *)
(* the stage machine can be entered at any stage with any profile.  The    *)
(* preset states keep what every turn keeps: the conversation has not      *)
(* ended, questions exist only while they are being asked, and the cursor  *)
(* points at one of them.                                                  *)
(***************************************************************************)
ProfileBackend ==
    [name |-> <<"A", "n", "n", " ", "L", "e", "e">>, email |-> <<"a", "n", "n", "@", "x", ".", "i", "o">>, phone |-> <<"5", "5", "5", "-", "1", "2", "3", "-", "4", "5", "6", "7">>,
     experience |-> None, position |-> <<"B", "a", "c", "k", "e", "n", "d", " ", "D", "e", "v", "e", "l", "o", "p", "e", "r">>, location |-> None,
     tech_stack |-> None]

ProfileComplete ==
    [name |-> <<"A", "n", "n", " ", "L", "e", "e">>, email |-> <<"a", "n", "n", "@", "x", ".", "i", "o">>, phone |-> <<"5", "5", "5", "-", "1", "2", "3", "-", "4", "5", "6", "7">>,
     experience |-> <<"4", " ", "y", "e", "a", "r", "s">>, position |-> <<"w", "e", "b", " ", "d", "e", "v", "e", "l", "o", "p", "e", "r", " ", "4", " ", "y", "e", "a", "r", "s">>,
     location |-> None, tech_stack |-> <<"p", "y", "t", "h", "o", "n", ",", " ", "r", "e", "a", "c", "t">>]

ProfileMixed ==
    [name |-> <<"B", "o", " ", "C", "h", "u">>, email |-> <<"b", "o", "@", "z", ".", "i", "o">>, phone |-> <<"5", "5", "5", "-", "9", "8", "7", "-", "6", "5", "4", "3">>,
     experience |-> <<"7", " ", "y", "e", "a", "r", "s">>, position |-> <<"M", "o", "b", "i", "l", "e", " ", "b", "a", "c", "k", " ", "o", "f", "f", "i", "c", "e", " ", "d", "a", "t", "a", " ", "e", "n", "g", "i", "n", "e", "e", "r">>,
     location |-> None, tech_stack |-> <<"j", "a", "v", "a", ",", " ", "a", "w", "s", ",", " ", "s", "q", "l">>]

PresetProfiles == {EmptyInfo, ProfileBackend, ProfileComplete, ProfileMixed}

PresetQuestions == get_mock_technical_questions(QuestionContext(ProfileComplete))

PresetSessions ==
    {s \in [current_stage : {Stages[k] : k \in 1..(Len(Stages) - 1)},
            candidate_info : PresetProfiles,
            tech_questions : {<<>>, PresetQuestions},
            question_index : 0..(Len(PresetQuestions) - 1),
            conversation_ended : {FALSE}] :
        IF s.current_stage = "technical_questions"
        THEN s.tech_questions # <<>>
        ELSE s.tech_questions = <<>> /\ s.question_index = 0}

InitPreset ==
    /\ messages = <<InitialGreeting>>
    /\ \E s \in PresetSessions :
          /\ candidate_info = s.candidate_info
          /\ current_stage = s.current_stage
          /\ tech_questions = s.tech_questions
          /\ question_index = s.question_index
          /\ conversation_ended = s.conversation_ended
          /\ prev = s
    /\ api_key \in BOOLEAN
    /\ data = <<>>
    /\ user_input = <<>>
    /\ response = <<>>
    /\ raised = FALSE
    /\ calls = <<>>
    /\ save_calls = 0
    /\ generate_calls = 0

\* The replies typed in a preset session: the input with the accented letter
\* differs from the others only in what a first turn extracts from it, which
\* the sessions that start fresh cover.
PresetInputs == Inputs \ {InputAccent}

NextPreset == \E u \in PresetInputs : Turns < MaxPresetTurns /\ Send(u)

SpecPreset == InitPreset /\ [][NextPreset]_vars

(***************************************************************************)
(* The recorder on its own: save_conversation takes any profile, so its    *)
(* validators are run on phone and email strings the extractor would not   *)
(* have stored.                                                            *)
(***************************************************************************)
\* The longest phone string handed to the recorder.
MaxPhoneLen == 11

\* The characters of those phone strings: a digit and a separator.
PhoneChars == {"5", "-"}

\* The strings over chars of at most n characters.
StringsUpTo(chars, n) == UNION {[1..k -> chars] : k \in 0..n}

\* The profiles handed to the recorder.
RecorderProfiles ==
    {[EmptyInfo EXCEPT !.name = <<"A", "n", "n", " ", "L", "e", "e">>, !.email = e, !.phone = p] :
        e \in {None, <<"a", "n", "n", "@", "x", ".", "i", "o">>, <<".", "b", "@", "x", ".", "i", "o">>},
        p \in {None} \cup StringsUpTo(PhoneChars, MaxPhoneLen)}

InitRecorder ==
    /\ messages = <<InitialGreeting>>
    /\ candidate_info \in RecorderProfiles
    /\ current_stage = "farewell"
    /\ tech_questions = <<>>
    /\ question_index = 0
    /\ conversation_ended = TRUE
    /\ api_key = FALSE
    /\ data = <<>>
    /\ user_input = <<>>
    /\ response = <<>>
    /\ raised = FALSE
    /\ calls = <<>>
    /\ prev = Session
    /\ save_calls = 0
    /\ generate_calls = 0

\* One call of save_conversation: response holds the value returned.
SaveRecord ==
    /\ calls = <<>>
    /\ \E saved \in save_conversation(candidate_info, messages, tech_questions, data) :
          /\ data' = saved.data
          /\ response' = <<Lit(IF saved.ok THEN "True" ELSE "False")>>
    /\ calls' = <<"save_conversation">>
    /\ save_calls' = save_calls + 1
    /\ UNCHANGED <<messages, candidate_info, current_stage, tech_questions,
                   question_index, conversation_ended, api_key, user_input,
                   raised, prev, generate_calls>>

NextRecorder == SaveRecord

SpecRecorder == InitRecorder /\ [][NextRecorder]_vars

(***************************************************************************)
(* Sessions that have reached collecting_experience with the experience    *)
(* stored and one of a range of positions, the state in which the prompt   *)
(* for the tech stack is put together.                                     *)
(***************************************************************************)
\* The number of turns such a session takes.
MaxPromptTurns == 1

\* The stored positions: for each rule one that only it matches, positions
\* that several rules match, and one that none matches.
PositionSamples ==
    {<<"W", "e", "b", " ", "D", "e", "v", "e", "l", "o", "p", "e", "r">>, <<"F", "r", "o", "n", "t", " ", "o", "f", "f", "i", "c", "e", " ", "e", "n", "g", "i", "n", "e", "e", "r">>, <<"B", "a", "c", "k", " ", "o", "f", "f", "i", "c", "e", " ", "a", "n", "a", "l", "y", "s", "t">>,
     <<"D", "a", "t", "a", " ", "A", "n", "a", "l", "y", "s", "t">>, <<"D", "e", "v", "O", "p", "s", " ", "E", "n", "g", "i", "n", "e", "e", "r">>, <<"M", "o", "b", "i", "l", "e", " ", "D", "e", "v", "e", "l", "o", "p", "e", "r">>, <<"Q", "A", " ", "E", "n", "g", "i", "n", "e", "e", "r">>,
     <<"M", "o", "b", "i", "l", "e", " ", "b", "a", "c", "k", " ", "o", "f", "f", "i", "c", "e", " ", "d", "a", "t", "a", " ", "e", "n", "g", "i", "n", "e", "e", "r">>, <<"M", "o", "b", "i", "l", "e", " ", "D", "e", "v", "O", "p", "s", " ", "a", "n", "d", " ", "D", "a", "t", "a", " ", "E", "n", "g", "i", "n", "e", "e", "r">>,
     <<"W", "e", "b", " ", "d", "a", "t", "a", " ", "d", "e", "v", "o", "p", "s", " ", "m", "o", "b", "i", "l", "e", " ", "a", "r", "c", "h", "i", "t", "e", "c", "t">>}

InitPrompt ==
    /\ messages = <<InitialGreeting>>
    /\ \E position \in PositionSamples :
          candidate_info = [ProfileComplete EXCEPT !.position = position]
    /\ current_stage = "collecting_experience"
    /\ tech_questions = <<>>
    /\ question_index = 0
    /\ conversation_ended = FALSE
    /\ api_key \in BOOLEAN
    /\ data = <<>>
    /\ user_input = <<>>
    /\ response = <<>>
    /\ raised = FALSE
    /\ calls = <<>>
    /\ prev = Session
    /\ save_calls = 0
    /\ generate_calls = 0

NextPrompt == \E u \in Inputs : Turns < MaxPromptTurns /\ Send(u)

SpecPrompt == InitPrompt /\ [][NextPrompt]_vars

(***************************************************************************)
(* A fresh session followed for as many turns as the walk from greeting to *)
(* collecting_tech_stack takes: one turn per stage.                        *)
(***************************************************************************)
\* The number of turns such a session takes.
MaxWalkTurns == 5

\* The replies typed on the walk: the ones that fill the profile in whole
\* or in part on the first turns, and a list of technologies.
WalkInputs == {InputProfile, InputPartial, InputAccent, InputStack}

NextWalk == \E u \in WalkInputs : Turns < MaxWalkTurns /\ Send(u)

SpecWalk == Init /\ [][NextWalk]_vars

(***************************************************************************)
(* Properties                                                              *)
(***************************************************************************)
\* The position of a stage in the canonical order.
StageIndex(stage) == CHOOSE k \in 1..Len(Stages) : Stages[k] = stage

\* A turn has been processed: user_input, response, calls and prev describe it.
Acted == user_input # <<>>

\* The input contains one of the six exit keywords as a case-insensitive substring.
ContainsExitKeyword(u) == \E keyword \in exit_keywords : Contains(Lower(u), keyword)

ProfileFields == {"name", "email", "phone", "experience", "position", "tech_stack"}

\* The field a collecting stage asks for.
FieldOf(stage) ==
    CASE stage = "collecting_email" -> "email"
      [] stage = "collecting_phone" -> "phone"
      [] stage = "collecting_position" -> "position"
      [] stage = "collecting_experience" -> "experience"
      [] stage = "collecting_tech_stack" -> "tech_stack"

\* The input holds a value the field extractor recognises for the field: run
\* on an empty profile in a stage in which every extraction is attempted, the
\* extractor sets the field.
Recognised(field, u) ==
    Truthy(extract_candidate_info(u, EmptyInfo, "collecting_info")[field])

\* C1: from the initial state, no turn moves current_stage to a stage that
\* comes earlier in the canonical order than the stage the turn started in.
C1_StageNeverDecreases ==
    StageIndex(current_stage) >= StageIndex(prev.current_stage)

C1_Witness ==
    /\ Acted
    /\ prev.current_stage = "collecting_position"
    /\ current_stage = "collecting_experience"

\* C2: a turn that starts in farewell returns the fixed notice that the
\* conversation has ended, calls no collaborator (extractor, model, recorder)
\* and leaves the stage, the profile, the questions and the cursor as they were.
C2_FarewellAbsorbing ==
    (Acted /\ prev.current_stage = "farewell") =>
        /\ response = EndedNotice
        /\ ~raised
        /\ calls = <<>>
        /\ Session = prev

C2_Witness ==
    /\ Acted
    /\ prev.current_stage = "farewell"
    /\ user_input = InputBackend
    /\ current_stage = "farewell"

\* C3: a turn that starts in any stage but farewell with an input containing
\* an exit keyword as a case-insensitive substring, also inside a longer word,
\* ends in farewell and returns the closing message.
C3_ExitKeywordEndsConversation ==
    (Acted /\ prev.current_stage # "farewell" /\ ContainsExitKeyword(user_input)) =>
        /\ current_stage = "farewell"
        /\ ~raised
        /\ response = ClosingMessage(candidate_info)

C3_Witness ==
    /\ Acted
    /\ prev.current_stage = "technical_questions"
    /\ user_input = InputBackend
    /\ current_stage = "farewell"
    /\ response = ClosingMessage(candidate_info)

\* C4: a turn that hits an exit keyword calls neither the extractor nor the
\* model, only the recorder, and leaves the profile, the questions and the
\* cursor as they were, even when the input holds extractable fields.
C4_ExitShortCircuits ==
    (Acted /\ prev.current_stage # "farewell" /\ ContainsExitKeyword(user_input)) =>
        /\ calls = <<"save_conversation">>
        /\ candidate_info = prev.candidate_info
        /\ tech_questions = prev.tech_questions
        /\ question_index = prev.question_index

C4_Witness ==
    /\ Acted
    /\ prev.current_stage = "greeting"
    /\ prev.candidate_info = EmptyInfo
    /\ user_input = InputBackend
    /\ extract_candidate_info(InputBackend, EmptyInfo, "greeting") # EmptyInfo
    /\ candidate_info = EmptyInfo
    /\ current_stage = "farewell"

\* C5: in each of collecting_email, collecting_phone, collecting_position,
\* collecting_experience and collecting_tech_stack, with the stage's own field
\* unset, a turn whose input is free of exit keywords and holds a value the
\* extractor recognises for that field leaves the field set and moves to the
\* next stage of the canonical order.
C5_StageCollectsItsField ==
    \A k \in 3..7 :
        (/\ Acted
         /\ prev.current_stage = Stages[k]
         /\ ~Truthy(prev.candidate_info[FieldOf(Stages[k])])
         /\ ~ContainsExitKeyword(user_input)
         /\ Recognised(FieldOf(Stages[k]), user_input)) =>
            /\ Truthy(candidate_info[FieldOf(Stages[k])])
            /\ current_stage = Stages[k + 1]

\* The session state without the transcript, the files and the call log, none
\* of which the stage machine reads.
Control(w) == [w EXCEPT !.messages = <<>>, !.data = <<>>, !.calls = <<>>]

ExitFreeInputs == {u \in Inputs : ~ContainsExitKeyword(u)}

\* The states that turns free of exit keywords reach from the states of S.
RECURSIVE ExitFreeReach(_)
ExitFreeReach(S) ==
    LET T == S \cup {Control(o.w) :
                        o \in UNION {process_user_input(w, u) :
                                        <<w, u>> \in S \X ExitFreeInputs}}
    IN  IF T = S THEN S ELSE ExitFreeReach(T)

\* C6: from the initial state some sequence of turns free of exit keywords
\* walks through the stages to technical_questions and ends in farewell
\* after the last question is answered.
C6_FullWalkPossible ==
    (~Acted /\ current_stage = "greeting" /\ candidate_info = EmptyInfo) =>
        \E w \in ExitFreeReach({[messages |-> <<>>, candidate_info |-> candidate_info,
                                 current_stage |-> current_stage,
                                 tech_questions |-> tech_questions,
                                 question_index |-> question_index,
                                 conversation_ended |-> conversation_ended,
                                 api_key |-> api_key, data |-> <<>>, calls |-> <<>>]}) :
            /\ w.current_stage = "farewell"
            /\ w.tech_questions # <<>>
            /\ w.question_index = Len(w.tech_questions)

\* C7: in collecting_experience with position "Backend Developer" and no
\* experience, the input "I have 4 years of experience" sets experience to
\* "4 years", moves to collecting_tech_stack and returns the prompt with the
\* back-end examples.
C7_ExperienceScenario ==
    (/\ Acted
     /\ prev.current_stage = "collecting_experience"
     /\ prev.candidate_info.position = <<"B", "a", "c", "k", "e", "n", "d", " ", "D", "e", "v", "e", "l", "o", "p", "e", "r">>
     /\ prev.candidate_info.experience = None
     /\ user_input = InputExperience) =>
        /\ candidate_info.experience = <<"4", " ", "y", "e", "a", "r", "s">>
        /\ current_stage = "collecting_tech_stack"
        /\ \E i \in 1..Len(response) :
              response[i] = Lit("For example: Node.js, Python, Java, PHP, Ruby, databases, etc.")

\* C8: in technical_questions a turn free of exit keywords advances the
\* cursor by exactly one; below the number of questions the stage stays and
\* the reply ends with the question at the new cursor, otherwise the stage
\* becomes farewell and the reply is the closing message.  Whenever a turn
\* leaves the stage at technical_questions the reply ends with the question
\* at the cursor, so the questions are asked once each, in list order.
C8_QuestionCursor ==
    /\ (Acted /\ prev.current_stage = "technical_questions"
              /\ ~ContainsExitKeyword(user_input)) =>
          /\ question_index = prev.question_index + 1
          /\ IF question_index < Len(tech_questions)
             THEN /\ current_stage = "technical_questions"
                  /\ response = <<Lit("Thank you for your answer. Next question:\n\n")>>
                                \o tech_questions[question_index + 1]
             ELSE /\ current_stage = "farewell"
                  /\ response = ClosingMessage(candidate_info)
    /\ (Acted /\ current_stage = "technical_questions") =>
          /\ question_index < Len(tech_questions)
          /\ LET q == tech_questions[question_index + 1]
             IN  /\ Len(response) > Len(q)
                 /\ SubSeq(response, Len(response) - Len(q) + 1, Len(response)) = q

C8_Witness ==
    /\ Acted
    /\ prev.current_stage = "technical_questions"
    /\ prev.question_index = 4
    /\ Len(tech_questions) = 5
    /\ ~ContainsExitKeyword(user_input)
    /\ question_index = 5
    /\ current_stage = "farewell"

\* C9: save_conversation is called at most once in a session, in exactly the
\* turn that moves current_stage to farewell, by an exit keyword or by the
\* answer to the last question; no other turn calls it.
C9_SavedOnceOnFarewell ==
    /\ save_calls <= 1
    /\ (save_calls = 1) <=> (current_stage = "farewell")
    /\ Acted =>
          CountOf(calls, "save_conversation") =
              IF prev.current_stage # "farewell" /\ current_stage = "farewell"
              THEN 1 ELSE 0

C9_Witness ==
    /\ Acted
    /\ prev.current_stage = "farewell"
    /\ ContainsExitKeyword(user_input)
    /\ save_calls = 1
    /\ CountOf(calls, "save_conversation") = 0

\* C10: a profile field that is set keeps its value through every later turn.
C10_FieldsWriteOnce ==
    \A field \in ProfileFields :
        prev.candidate_info[field] # None =>
            candidate_info[field] = prev.candidate_info[field]

C10_Witness ==
    /\ Acted
    /\ prev.current_stage = "greeting"
    /\ prev.candidate_info.phone = <<"5", "5", "5", "-", "9", "8", "7", "-", "6", "5", "4", "3">>
    /\ prev.candidate_info.experience = <<"5", " ", "y", "e", "a", "r", "s">>
    /\ user_input = InputProfile
    /\ PhoneFindAll(user_input) = <<<<"5", "5", "5", "-", "1", "2", "3", "-", "4", "5", "6", "7">>>>
    /\ candidate_info.phone = <<"5", "5", "5", "-", "9", "8", "7", "-", "6", "5", "4", "3">>
    /\ candidate_info.experience = <<"5", " ", "y", "e", "a", "r", "s">>
    /\ candidate_info.email = <<"a", "n", "n", "@", "x", ".", "i", "o">>

\* The collaborator was called in the last turn.
WasCalled(collaborator) == CountOf(calls, collaborator) > 0

\* C11: extract_candidate_info returns the profile it was given for every
\* stage other than greeting, collecting_info and tech_stack_confirmation,
\* whatever the input holds; a turn that runs the extractor in such a stage
\* leaves the profile as it found it.
C11_ExtractorGate ==
    /\ \A k \in 1..Len(Stages) : \A u \in Inputs :
          Stages[k] \notin {"greeting", "collecting_info", "tech_stack_confirmation"} =>
              extract_candidate_info(u, candidate_info, Stages[k]) = candidate_info
    /\ (/\ Acted
        /\ WasCalled("extract_candidate_info")
        /\ prev.current_stage \notin {"greeting", "collecting_info", "tech_stack_confirmation"}) =>
            candidate_info = prev.candidate_info

C11_Witness ==
    /\ Acted
    /\ WasCalled("extract_candidate_info")
    /\ prev.current_stage = "technical_questions"
    /\ prev.candidate_info = EmptyInfo
    /\ user_input = InputProfile
    /\ extract_candidate_info(user_input, EmptyInfo, "greeting") # EmptyInfo
    /\ candidate_info = EmptyInfo

\* C12: a turn that calls save_conversation ends without an exception, in
\* farewell, with the conversation ended and the closing message as its
\* reply, whether the save wrote a record or failed; a profile that fails
\* the validation of its email or phone leaves no record.
C12_SaveFailureSwallowed ==
    /\ (Acted /\ WasCalled("save_conversation")) =>
          /\ ~raised
          /\ current_stage = "farewell"
          /\ conversation_ended
          /\ response = ClosingMessage(candidate_info)
    /\ (~validate_email(candidate_info.email) \/ ~validate_phone(candidate_info.phone)) =>
          data = <<>>

C12_Witness ==
    /\ Acted
    /\ WasCalled("save_conversation")
    /\ candidate_info.email = <<".", "b", "@", "x", ".", "i", "o">>
    /\ ~validate_email(candidate_info.email)
    /\ data = <<>>
    /\ ~raised
    /\ current_stage = "farewell"
    /\ conversation_ended
    /\ response = ClosingMessage(candidate_info)

\* The state the last turn started from, with or without an API key.
PrevWorld(key) ==
    [messages |-> <<>>, candidate_info |-> prev.candidate_info,
     current_stage |-> prev.current_stage, tech_questions |-> prev.tech_questions,
     question_index |-> prev.question_index,
     conversation_ended |-> prev.conversation_ended,
     api_key |-> key, data |-> <<>>, calls |-> <<>>]

\* C13: a turn that consults the model calls it once; without an API key a
\* turn that makes no transition returns the rule-based response, and no
\* exception reaches the caller; and whatever the model call does (no key,
\* a reply, or a failure answered by the rule-based response) the turn ends
\* in the same stage, with the same profile and the same cursor.
C13_ModelFailureFallsBack ==
    (Acted /\ WasCalled("get_chatbot_response")) =>
        /\ CountOf(calls, "get_chatbot_response") = 1
        /\ (/\ ~api_key
            /\ current_stage = prev.current_stage
            /\ prev.current_stage # "technical_questions") =>
                /\ ~raised
                /\ response = get_mock_response(user_input, prev.current_stage)
        /\ \A key \in BOOLEAN :
              \A o \in process_user_input(PrevWorld(key), user_input) :
                  /\ o.w.current_stage = current_stage
                  /\ o.w.candidate_info = candidate_info
                  /\ o.w.question_index = question_index
                  /\ o.raised = raised

C13_Witness ==
    /\ Acted
    /\ api_key
    /\ WasCalled("get_chatbot_response")
    /\ prev.current_stage = "collecting_email"
    /\ prev.candidate_info = EmptyInfo
    /\ user_input = InputExperience
    /\ response = get_mock_response(user_input, "collecting_email")
    /\ response \notin LiveReplies
    /\ ~raised
    /\ current_stage = "collecting_email"

\* The number of digits of a string.
DigitCount(v) == Cardinality({i \in 1..Len(v) : v[i] \in Digits})

\* C14: the validation of the phone accepts an unset phone, and accepts a
\* non-empty phone exactly when at least 10 of its characters are digits,
\* whatever the other characters are; the recorder writes no record and
\* returns False for a phone with fewer than 10 digits.
C14_PhoneValidationCountsDigits ==
    LET v == candidate_info.phone
    IN  /\ v = None => validate_phone(v)
        /\ (v # None /\ v # <<>>) => (validate_phone(v) <=> DigitCount(v) >= 10)
        /\ (/\ calls = <<"save_conversation">>
            /\ v # None /\ v # <<>>
            /\ DigitCount(v) < 10) =>
                /\ data = <<>>
                /\ response = <<Lit("False")>>

C14_Witness ==
    /\ calls = <<"save_conversation">>
    /\ candidate_info.phone = <<"5", "5", "5", "5", "5", "-", "5", "5", "5", "5", "5">>
    /\ DigitCount(candidate_info.phone) = 10
    /\ Len(candidate_info.phone) = 11
    /\ response = <<Lit("True")>>
    /\ data # <<>>

\* C15: a turn that runs the extractor on an input holding a substring of the
\* email shape leaves the first such substring as the email of the profile
\* when the email was unset, and the email it found otherwise.
C15_FirstEmailExtracted ==
    (/\ Acted
     /\ WasCalled("extract_candidate_info")
     /\ EmailFindAll(user_input) # <<>>) =>
        candidate_info.email =
            IF prev.candidate_info.email = None
            THEN EmailFindAll(user_input)[1]
            ELSE prev.candidate_info.email

\* The rows of the table whose keyword occurs in the tech-stack string as a
\* case-insensitive substring.
MockHits(tech_stack) ==
    {k \in 1..Len(MockTechs) : Contains(Lower(tech_stack), MockTechs[k])}

\* C16: without an API key the questions generated on leaving
\* tech_stack_confirmation are five; when a keyword of the table occurs in
\* the string handed over they are the five questions of the first such
\* keyword in table order (the first five of the concatenation, every row
\* holding five), so the Python ones for a string with python and react;
\* when none occurs each of the five embeds the lower-cased string.
C16_MockQuestions ==
    (/\ Acted
     /\ ~api_key
     /\ prev.current_stage = "tech_stack_confirmation"
     /\ WasCalled("generate_technical_questions")) =>
        LET tech_stack == QuestionContext(candidate_info)
            hits == MockHits(tech_stack)
        IN  /\ Len(tech_questions) = 5
            /\ \A k \in 1..Len(MockTechs) : Len(MockQuestions[k]) = 5
            /\ hits # {} =>
                  \A i \in 1..5 :
                      tech_questions[i] =
                          MockQuestions[CHOOSE k \in hits : \A j \in hits : k <= j][i]
            /\ ({1, 3} \subseteq hits) => tech_questions = MockQuestions[1]
            /\ hits = {} =>
                  \A i \in 1..5 :
                      /\ Len(tech_questions[i]) = 3
                      /\ tech_questions[i][2] = Val(Lower(tech_stack))
                      /\ \A j \in 1..5 : j # i => tech_questions[j] # tech_questions[i]

C16_Witness ==
    /\ Acted
    /\ ~api_key
    /\ prev.current_stage = "tech_stack_confirmation"
    /\ WasCalled("generate_technical_questions")
    /\ candidate_info.tech_stack = <<"p", "y", "t", "h", "o", "n", ",", " ", "r", "e", "a", "c", "t">>
    /\ MockHits(QuestionContext(candidate_info)) = {1, 3}
    /\ tech_questions = MockQuestions[1]
    /\ current_stage = "technical_questions"

\* C17: generate_technical_questions is called at most once in a session,
\* only in a turn that starts in tech_stack_confirmation with no questions
\* and moves on to technical_questions; only such a turn changes
\* tech_questions, and it leaves a set that is not empty, so that no later
\* turn (an answer, an exit keyword, a turn after farewell) changes it.
C17_QuestionsGeneratedOnce ==
    /\ generate_calls <= 1
    /\ generate_calls = 1 => tech_questions # <<>>
    /\ Acted =>
          /\ CountOf(calls, "generate_technical_questions") <= 1
          /\ WasCalled("generate_technical_questions") =>
                /\ prev.current_stage = "tech_stack_confirmation"
                /\ prev.tech_questions = <<>>
                /\ current_stage = "technical_questions"
          /\ tech_questions # prev.tech_questions =>
                WasCalled("generate_technical_questions")
          /\ prev.tech_questions # <<>> => tech_questions = prev.tech_questions

C17_Witness ==
    /\ Acted
    /\ generate_calls = 1
    /\ ~WasCalled("generate_technical_questions")
    /\ prev.current_stage = "technical_questions"
    /\ prev.tech_questions # <<>>
    /\ tech_questions = prev.tech_questions
    /\ question_index = 1

\* The stages whose branch of handle_stage_transitions waits for a field of
\* the profile, with that field.
AwaitedField ==
    { <<"greeting", "name">>, <<"collecting_email", "email">>,
      <<"collecting_phone", "phone">>, <<"collecting_position", "position">>,
      <<"collecting_experience", "experience">>,
      <<"collecting_tech_stack", "tech_stack">> }

\* No condition of handle_stage_transitions matches the stage, the profile,
\* the input and the questions.
NoTransitionMatches(stage, info, u, questions) ==
    /\ ~(stage = "greeting" /\ Strip(Lower(u)) = <<"h", "e", "y">>)
    /\ \A p \in AwaitedField : ~(stage = p[1] /\ Truthy(info[p[2]]))
    /\ ~(stage = "tech_stack_confirmation" /\ questions = <<>>)
    /\ stage # "technical_questions"

\* C18: a turn in which no transition condition matches returns the response
\* of the model as it got it and leaves the stage, the cursor and the
\* questions as they were.
C18_PassThrough ==
    (/\ Acted
     /\ WasCalled("get_chatbot_response")
     /\ NoTransitionMatches(prev.current_stage, candidate_info, user_input,
                            prev.tech_questions)) =>
        /\ ~raised
        /\ response \in get_chatbot_response(api_key, user_input, prev.current_stage)
        /\ current_stage = prev.current_stage
        /\ question_index = prev.question_index
        /\ tech_questions = prev.tech_questions

C18_Witness ==
    /\ Acted
    /\ api_key
    /\ WasCalled("get_chatbot_response")
    /\ prev.current_stage = "collecting_experience"
    /\ candidate_info = ProfileBackend
    /\ user_input = InputExperience
    /\ NoTransitionMatches(prev.current_stage, candidate_info, user_input,
                           prev.tech_questions)
    /\ response \in LiveReplies
    /\ current_stage = "collecting_experience"

\* The rules of the tech stack prompt in their order of priority: the words
\* looked for in the lower-cased position, and the examples they select.
ExampleRules ==
    << <<{<<"w", "e", "b">>, <<"f", "r", "o", "n", "t">>}, "For example: HTML, CSS, JavaScript, React, Angular, Vue, etc.">>,
       <<{<<"b", "a", "c", "k">>}, "For example: Node.js, Python, Java, PHP, Ruby, databases, etc.">>,
       <<{<<"d", "a", "t", "a">>}, "For example: Python, R, SQL, Pandas, Matplotlib, machine learning libraries, etc.">>,
       <<{<<"d", "e", "v", "o", "p", "s">>}, "For example: Docker, Kubernetes, AWS, CI/CD, Linux, etc.">>,
       <<{<<"m", "o", "b", "i", "l", "e">>}, "For example: Swift, Kotlin, React Native, Flutter, etc.">> >>

\* The rules that match a position.
MatchingRules(position) ==
    {k \in 1..Len(ExampleRules) :
        \E word \in ExampleRules[k][1] : Contains(Lower(position), word)}

\* C19: the prompt returned on the transition from collecting_experience to
\* collecting_tech_stack ends with the examples of the first rule, in the
\* order web or front, back, data, devops, mobile, whose word occurs in the
\* lower-cased position, and with the generic examples when none does.
C19_ExamplesByFirstRule ==
    (/\ Acted
     /\ prev.current_stage = "collecting_experience"
     /\ current_stage = "collecting_tech_stack"
     /\ ~raised) =>
        LET hits == MatchingRules(candidate_info.position)
        IN  response =
                <<Lit("Thank you! "),
                  Lit("Please list your technical skills relevant to this position. "),
                  Lit(IF hits = {}
                      THEN "For example: programming languages, frameworks, tools, and technologies you're proficient in."
                      ELSE ExampleRules[CHOOSE k \in hits : \A j \in hits : k <= j][2])>>

C19_Witness ==
    /\ Acted
    /\ prev.current_stage = "collecting_experience"
    /\ current_stage = "collecting_tech_stack"
    /\ candidate_info.position = <<"M", "o", "b", "i", "l", "e", " ", "b", "a", "c", "k", " ", "o", "f", "f", "i", "c", "e", " ", "d", "a", "t", "a", " ", "e", "n", "g", "i", "n", "e", "e", "r">>
    /\ MatchingRules(candidate_info.position) = {2, 3, 5}
    /\ response[3] = Lit("For example: Node.js, Python, Java, PHP, Ruby, databases, etc.")

\* The transcript starts with the bot's greeting, and its entries alternate:
\* counted from 0, the even ones are bot turns and the odd ones user turns.
TranscriptAlternates ==
    /\ messages[1] = InitialGreeting
    /\ \A i \in 1..Len(messages) :
          messages[i][1] = IF (i - 1) % 2 = 0 THEN Lit("TalentScout: ") ELSE Lit("You: ")

\* A step appends the user's turn and then the bot's reply to the transcript
\* and changes no entry that was there.
AppendsOneExchange ==
    /\ Len(messages') = Len(messages) + 2
    /\ SubSeq(messages', 1, Len(messages)) = messages
    /\ messages'[Len(messages) + 1] = <<Lit("You: "), Val(user_input')>>
    /\ messages'[Len(messages) + 2] = <<Lit("TalentScout: ")>> \o response'

\* C20: the transcript starts with the greeting and alternates between bot
\* and user turns in every reachable state, and every submitted input, also
\* one after farewell, appends exactly the user's turn and the bot's reply
\* and leaves the earlier entries as they were.
C20_TranscriptAppendOnly ==
    []TranscriptAlternates /\ [][AppendsOneExchange]_vars

C20_Witness ==
    /\ Acted
    /\ prev.current_stage = "farewell"
    /\ Len(messages) = 5
    /\ messages[4] = <<Lit("You: "), Val(InputName)>>
    /\ messages[5] = <<Lit("TalentScout: ")>> \o EndedNotice
    /\ TranscriptAlternates

\* C21: from the initial state current_stage is never collecting_info, the
\* only stage in which the tech stack is extracted, and tech_stack is unset
\* in every reachable state.
C21_TechStackNeverSet ==
    /\ current_stage # "collecting_info"
    /\ \E k \in 1..Len(Stages) : current_stage = Stages[k]
    /\ candidate_info.tech_stack = None

C21_Witness ==
    /\ Acted
    /\ prev.current_stage = "greeting"
    /\ WasCalled("extract_candidate_info")
    /\ user_input = InputStack
    /\ ExtractTechStack(user_input, EmptyInfo, "collecting_info").tech_stack
           = <<"p", "y", "t", "h", "o", "n", ",", " ", "r", "e", "a", "c", "t", ",", " ", "s", "q", "l">>
    /\ candidate_info.name = <<"p", "y", "t", "h", "o", "n", " ", "r", "e", "a", "c", "t", " ", "a", "n", "d">>
    /\ candidate_info.tech_stack = None

\* C22: collecting_name is entered only from greeting by the input hey
\* (trimmed, lower-cased); a turn that starts in collecting_name with an
\* input free of exit keywords leaves the stage and the profile as they
\* were; and a turn that leaves collecting_name has an exit keyword in its
\* input and ends in farewell.
C22_CollectingNameDeadEnd ==
    /\ (Acted /\ current_stage = "collecting_name"
              /\ prev.current_stage # "collecting_name") =>
          /\ prev.current_stage = "greeting"
          /\ Strip(Lower(user_input)) = <<"h", "e", "y">>
    /\ (Acted /\ prev.current_stage = "collecting_name"
              /\ ~ContainsExitKeyword(user_input)) =>
          /\ current_stage = "collecting_name"
          /\ candidate_info = prev.candidate_info
    /\ (Acted /\ prev.current_stage = "collecting_name"
              /\ current_stage # "collecting_name") =>
          /\ ContainsExitKeyword(user_input)
          /\ current_stage = "farewell"

C22_Witness ==
    /\ Acted
    /\ prev.current_stage = "collecting_name"
    /\ prev.candidate_info = EmptyInfo
    /\ user_input = InputProfile
    /\ ~ContainsExitKeyword(user_input)
    /\ current_stage = "collecting_name"
    /\ candidate_info = EmptyInfo
    /\ Len(messages) = 7


\* C23: between turns conversation_ended is true exactly when current_stage
\* is farewell.
C23_EndedIffFarewell ==
    conversation_ended <=> (current_stage = "farewell")

C23_Witness ==
    /\ Acted
    /\ prev.current_stage = "technical_questions"
    /\ ~prev.conversation_ended
    /\ ~ContainsExitKeyword(user_input)
    /\ WasCalled("get_chatbot_response")
    /\ WasCalled("save_conversation")
    /\ current_stage = "farewell"
    /\ conversation_ended

\* The other way into farewell, by an exit keyword in a stage that is not
\* technical_questions.
C23_WitnessExit ==
    /\ Acted
    /\ prev.current_stage = "collecting_phone"
    /\ ~prev.conversation_ended
    /\ ContainsExitKeyword(user_input)
    /\ current_stage = "farewell"
    /\ conversation_ended


\* C24: a record is written only for a profile whose name is set.  With the
\* name unset every outcome of save_conversation returns False and leaves
\* the files of data/ as they were, and the turn that moves the stage to
\* farewell with the name unset still gets the closing message as its
\* reply, with no exception and no record.
C24_RecordOnlyWithName ==
    /\ \A i \in 1..Len(data) : data[i].candidate_info.name # None
    /\ candidate_info.name = None =>
          \A saved \in save_conversation(candidate_info, messages, tech_questions, data) :
              ~saved.ok /\ saved.data = data
    /\ (Acted /\ WasCalled("save_conversation") /\ candidate_info.name = None) =>
          /\ data = <<>>
          /\ ~raised
          /\ current_stage = "farewell"
          /\ conversation_ended
          /\ response = ClosingMessage(candidate_info)

C24_Witness ==
    /\ Acted
    /\ prev.current_stage = "greeting"
    /\ user_input = InputGoodbye
    /\ Len(messages) = 3
    /\ WasCalled("save_conversation")
    /\ candidate_info.name = None
    /\ data = <<>>
    /\ current_stage = "farewell"
    /\ response = ClosingMessage(EmptyInfo)

\* The same exit with the name set: the record can be written.
C24_WitnessWritten ==
    /\ Acted
    /\ ContainsExitKeyword(user_input)
    /\ WasCalled("save_conversation")
    /\ candidate_info.name # None
    /\ Len(data) = 1
    /\ data[1].candidate_info = candidate_info


\* C25: in a session that starts fresh the stage implies the earlier fields:
\* collecting_email implies a name, collecting_phone an email,
\* collecting_position a phone, collecting_experience a position,
\* collecting_tech_stack an experience and a position, and
\* tech_stack_confirmation and technical_questions a tech stack; and no turn
\* ends in an exception, so position.lower() never meets an unset position.
C25_StageImpliesFields ==
    /\ current_stage = "collecting_email" => Truthy(candidate_info.name)
    /\ current_stage = "collecting_phone" => Truthy(candidate_info.email)
    /\ current_stage = "collecting_position" => Truthy(candidate_info.phone)
    /\ current_stage = "collecting_experience" => Truthy(candidate_info.position)
    /\ current_stage = "collecting_tech_stack" =>
          /\ Truthy(candidate_info.experience)
          /\ Truthy(candidate_info.position)
    /\ current_stage \in {"tech_stack_confirmation", "technical_questions"} =>
          Truthy(candidate_info.tech_stack)
    /\ ~raised

C25_Witness ==
    /\ Acted
    /\ Len(messages) = 11
    /\ prev.current_stage = "collecting_experience"
    /\ current_stage = "collecting_tech_stack"
    /\ Truthy(candidate_info.experience)
    /\ Truthy(candidate_info.position)
    /\ response[3] = Lit(TechExamples(Lower(candidate_info.position)))
    /\ ~raised

\* A walk that stops short: with the position unset the session stays in
\* collecting_position although the experience is known.
C25_WitnessStuck ==
    /\ Acted
    /\ prev.current_stage = "collecting_position"
    /\ current_stage = "collecting_position"
    /\ candidate_info.position = None
    /\ Truthy(candidate_info.experience)
    /\ Truthy(candidate_info.phone)

\* The entry of tech_stack_confirmation, which no fresh session reaches, in
\* a session that starts from preset keys: the turn that enters it has a
\* tech stack.
C25_EntryNeedsTechStack ==
    (Acted /\ prev.current_stage = "collecting_tech_stack"
           /\ current_stage = "tech_stack_confirmation") =>
        Truthy(candidate_info.tech_stack)

C25_WitnessEntry ==
    /\ Acted
    /\ prev.current_stage = "collecting_tech_stack"
    /\ current_stage = "tech_stack_confirmation"
    /\ Truthy(candidate_info.tech_stack)


\* C26: in a turn that calls generate_technical_questions, the call returns
\* no empty list, with or without an API key, for the string the session
\* hands over and for the empty string; and the turn ends without an
\* exception in technical_questions, with at least one question stored and
\* the first one at the end of its reply.
C26_QuestionsNeverEmpty ==
    (Acted /\ WasCalled("generate_technical_questions")) =>
          /\ \A key \in BOOLEAN :
                \A tech_stack \in {<<>>, QuestionContext(candidate_info)} :
                    \A questions \in generate_technical_questions(key, tech_stack) :
                        Len(questions) >= 1
          /\ ~raised
          /\ current_stage = "technical_questions"
          /\ Len(tech_questions) >= 1
          /\ tech_questions \in
                generate_technical_questions(api_key, QuestionContext(candidate_info))
          /\ response =
                <<Lit("Great! Now I'll ask you some technical questions based on your experience.\n\n")>>
                \o tech_questions[1]

\* The live path with no line ending in "?": the single question that embeds
\* the string handed over.
C26_Witness ==
    /\ Acted
    /\ api_key
    /\ prev.current_stage = "tech_stack_confirmation"
    /\ WasCalled("generate_technical_questions")
    /\ <<>> \in LiveQuestionLists
    /\ tech_questions =
          << <<Lit("Could you explain your experience with "),
               Val(QuestionContext(candidate_info)), Lit("?")>> >>
    /\ current_stage = "technical_questions"
    /\ ~raised


\* C27 as stated: in technical_questions the cursor is at least 0 and below
\* the number of questions; in every earlier stage it is 0; it never exceeds
\* the number of questions; and it equals that number only in farewell.
C27_CursorBoundsAsClaimed ==
    /\ current_stage = "technical_questions" =>
          /\ 0 <= question_index
          /\ question_index < Len(tech_questions)
    /\ StageIndex(current_stage) < StageIndex("technical_questions") =>
          question_index = 0
    /\ question_index <= Len(tech_questions)
    /\ question_index = Len(tech_questions) => current_stage = "farewell"

\* C27: in technical_questions the cursor is at least 0 and below the
\* number of questions; in every earlier stage it is 0; it never exceeds the
\* number of questions; and once there are questions it equals their number
\* only in farewell, having reached it in a turn free of exit keywords that
\* started in technical_questions at the last question.
C27_CursorBounds ==
    /\ current_stage = "technical_questions" =>
          /\ 0 <= question_index
          /\ question_index < Len(tech_questions)
    /\ StageIndex(current_stage) < StageIndex("technical_questions") =>
          question_index = 0
    /\ question_index <= Len(tech_questions)
    /\ (tech_questions # <<>> /\ question_index = Len(tech_questions)) =>
          current_stage = "farewell"
    /\ (/\ Acted
        /\ tech_questions # <<>>
        /\ question_index = Len(tech_questions)
        /\ question_index # prev.question_index) =>
          /\ prev.current_stage = "technical_questions"
          /\ prev.question_index = Len(tech_questions) - 1
          /\ ~ContainsExitKeyword(user_input)
          /\ current_stage = "farewell"

\* The only answer to a set of one question, generated in the turn before.
C27_Witness ==
    /\ Acted
    /\ generate_calls = 1
    /\ prev.current_stage = "technical_questions"
    /\ prev.question_index = 0
    /\ Len(tech_questions) = 1
    /\ question_index = 1
    /\ current_stage = "farewell"

\* The cursor equal to the number of questions with none generated yet.
C27_WitnessNoQuestions ==
    /\ Acted
    /\ current_stage = "collecting_phone"
    /\ tech_questions = <<>>
    /\ question_index = Len(tech_questions)

====
